---- MODULE Spec2Model ----
(***************************************************************************)
(* Model of summac/model_summac.py: the SummaCImager (chunking, the        *)
(* 3 x N x M image of NLI probabilities, its cache and the cache file),    *)
(* SummaCZS.image2score and SummaCConv (histograms, forward).              *)
(*                                                                         *)
(* Texts are sequences of tokens, each token standing for a run of        *)
(* characters: "W" 11 letters, "V" 12 letters, "w" 4 letters, "." a full   *)
(* stop, "_" a space, "n" a newline and "S" the five characters "[///]".   *)
(* The string "[///]" has no proper prefix that is also a suffix, so its   *)
(* occurrences in a text never overlap and it can be taken as one token.   *)
(* Probabilities are integers in units of 1/Scale.                         *)
(***************************************************************************)
EXTENDS Integers, Sequences, FiniteSets, TLC

VARIABLES model_name, grans, use_cache, cache, folder, file, last, zs, conv

vars == <<model_name, grans, use_cache, cache, folder, file, last, zs, conv>>

\* ------------------------------------------------------------- bounds
\* the longest input list given to build_images
MaxPairs == 2
\* the largest batch_size given to build_images
MaxBatch == 2
\* max_doc_sents of the Imager (100 by default), at least 1
MaxDocSents == 2
\* one probability unit is 1/Scale
Scale == 1000

\* ------------------------------------------------------------- sequences
Min2(a, b) == IF a < b THEN a ELSE b

Max2(a, b) == IF a > b THEN a ELSE b

RECURSIVE SumSeq(_)
SumSeq(s) ==
    IF s = <<>> THEN 0
    ELSE IF Len(s) = 1 THEN s[1]
    ELSE SumSeq(SubSeq(s, 1, Len(s) \div 2)) + SumSeq(SubSeq(s, (Len(s) \div 2) + 1, Len(s)))

RECURSIVE Flatten(_)
Flatten(ss) ==
    IF ss = <<>> THEN <<>>
    ELSE IF Len(ss) = 1 THEN ss[1]
    ELSE Flatten(SubSeq(ss, 1, Len(ss) \div 2))
             \o Flatten(SubSeq(ss, (Len(ss) \div 2) + 1, Len(ss)))

\* the sequence s with its elements evaluated (TLC keeps [i \in 1..n |-> e]
\* unevaluated, and evaluates e again at every use)
Eager(s) == s \o <<>>

\* s[:n] of Python, n >= 0
Prefix(s, n) == SubSeq(s, 1, Min2(n, Len(s)))

\* F of the value: the value is computed first, once, and then used by F
Bind(value, F(_)) == CHOOSE r \in {F(v) : v \in {value}} : TRUE

\* ------------------------------------------------------------- texts
SEP == <<"S">>

CharLen(tok) ==
    CASE tok = "W" -> 11
      [] tok = "V" -> 12
      [] tok = "w" -> 4
      [] tok = "S" -> 5
      [] OTHER -> 1

\* len(text), in characters
StrLen(text) == SumSeq([i \in 1..Len(text) |-> CharLen(text[i])])

IsSpace(tok) == tok \in {"_", "n"}

\* whether sep occurs in s at position i
OccursAt(s, sep, i) ==
    /\ i + Len(sep) - 1 <= Len(s)
    /\ \A k \in 1..Len(sep) : s[i + k - 1] = sep[k]

\* str.count(sep) > 0
Contains(s, sep) == \E i \in 1..Len(s) : OccursAt(s, sep, i)

\* str.split(sep): cut at the leftmost occurrences, empty pieces kept
RECURSIVE Split(_, _)
Split(s, sep) ==
    IF ~Contains(s, sep) THEN <<s>>
    ELSE Bind(CHOOSE i \in 1..Len(s) :
                  /\ OccursAt(s, sep, i)
                  /\ \A k \in 1..(i - 1) : ~OccursAt(s, sep, k),
              LAMBDA i : <<SubSeq(s, 1, i - 1)>>
                             \o Split(SubSeq(s, i + Len(sep), Len(s)), sep))

\* sep.join(parts)
RECURSIVE Join(_, _)
Join(parts, sep) ==
    IF parts = <<>> THEN <<>>
    ELSE IF Len(parts) = 1 THEN parts[1]
    ELSE parts[1] \o sep \o Join(Tail(parts), sep)

\* str.strip()
RECURSIVE Strip(_)
Strip(s) ==
    IF s = <<>> THEN s
    ELSE IF IsSpace(s[1]) THEN Strip(Tail(s))
    ELSE IF IsSpace(s[Len(s)]) THEN Strip(SubSeq(s, 1, Len(s) - 1))
    ELSE s

\* nltk.tokenize.sent_tokenize: a sentence ends at a full stop; the pieces
\* come without the white space around them and none is empty; what follows
\* the last full stop is a piece too
sent_tokenize(text) ==
    Bind(Strip(text), LAMBDA t :
    Bind(SelectSeq(Eager([i \in 1..Len(t) |-> i]), LAMBDA i : t[i] = "."), LAMBDA stops :
    Bind(Strip(SubSeq(t, (IF stops = <<>> THEN 0 ELSE stops[Len(stops)]) + 1, Len(t))),
         LAMBDA rest :
        Eager([k \in 1..Len(stops) |->
                  Strip(SubSeq(t, IF k = 1 THEN 1 ELSE stops[k - 1] + 1, stops[k]))])
            \o (IF rest = <<>> THEN <<>> ELSE <<rest>>))))

split_sentences(text) ==
    SelectSeq(sent_tokenize(text), LAMBDA sent : StrLen(sent) > 10)

split_2sents(text) ==
    Bind(split_sentences(text), LAMBDA sentences :
        Eager([i \in 1..Len(sentences) |->
            Join(SubSeq(sentences, i, Min2(i + 1, Len(sentences))), <<"_">>)]))

split_paragraphs(text) ==
    Bind(IF Contains(text, <<"n", "n">>)
         THEN Split(text, <<"n", "n">>)
         ELSE Split(text, <<"n">>),
         LAMBDA pieces :
             SelectSeq(Eager([i \in 1..Len(pieces) |-> Strip(pieces[i])]),
                       LAMBDA p : StrLen(p) > 10))

split_text(text, granularity) ==
    CASE granularity = "document" -> <<text>>
      [] granularity = "paragraph" -> split_paragraphs(text)
      [] granularity = "sentence" -> split_sentences(text)
      [] granularity = "2sents" -> split_2sents(text)
      [] granularity = "mixed" -> split_sentences(text) \o split_paragraphs(text)

\* ------------------------------------------------------------- the predictor
model_map ==
    [name \in {"snli-base", "snli-large", "mnli-base", "mnli", "anli",
               "vitc-base", "vitc", "vitc-only"} |->
        CASE name \in {"snli-base", "snli-large", "anli"} ->
                 [entailment_idx |-> 0, contradiction_idx |-> 2]
          [] name \in {"mnli-base", "mnli"} ->
                 [entailment_idx |-> 2, contradiction_idx |-> 0]
          [] OTHER ->
                 [entailment_idx |-> 0, contradiction_idx |-> 1]]

\* the least of {0, 1, 2} minus the two indices
get_neutral_idx_wrong(ent_idx, con_idx) == 1

get_neutral_idx(ent_idx, con_idx) ==
    CHOOSE x \in {0, 1, 2} \ {ent_idx, con_idx} :
        \A y \in {0, 1, 2} \ {ent_idx, con_idx} : x <= y

\* the class distributions a predictor gives, each summing to Scale
Dists ==
    << <<700, 200, 100>>, <<0, 1000, 0>>, <<125, 375, 500>>,
       <<1000, 0, 0>>, <<20, 955, 25>>, <<0, 0, 1000>>, <<330, 330, 340>> >>

RECURSIVE Hash(_)
Hash(unit) == IF unit = <<>> THEN 0
              ELSE Len(unit) * CharLen(unit[Len(unit)])
                   + Hash(SubSeq(unit, 1, Len(unit) - 1))

\* softmax(model(premise, hypothesis).logits): the distribution over the
\* classes 0, 1, 2 (at 1, 2, 3), a fixed function of the model and the pair
softmax(name, premise, hypothesis) ==
    Dists[((3 * Hash(premise) + 5 * Hash(hypothesis) + Len(name)) % Len(Dists)) + 1]

\* ------------------------------------------------------------- SummaCImager
\* np.zeros((d, n, m))
zeros(d, n, m) == Eager([p \in 1..d |-> Eager([i \in 1..n |-> Eager([j \in 1..m |-> 0])])])

\* image.shape[1] and image.shape[2]
N_ori_of(image) == Len(image[1])

N_gen_of(image) == Len(image[1][1])

\* image[:, :n, :]
slice_rows(image, n) == Eager([p \in 1..Len(image) |-> Prefix(image[p], n)])

build_chunk_dataset(gr, original, generated, pair_idx) ==
    Bind(Prefix(split_text(original, gr[1]), MaxDocSents), LAMBDA original_chunks :
    Bind(split_text(generated, IF Len(gr) = 1 THEN gr[1] ELSE gr[2]), LAMBDA generated_chunks :
    Bind(Len(generated_chunks), LAMBDA N_gen :
        [dataset |-> Eager([x \in 1..(Len(original_chunks) * N_gen) |->
                        [premise |-> original_chunks[((x - 1) \div N_gen) + 1],
                         hypothesis |-> generated_chunks[((x - 1) % N_gen) + 1],
                         doc_i |-> (x - 1) \div N_gen,
                         gen_i |-> (x - 1) % N_gen,
                         pair_idx |-> pair_idx]]),
         N_ori |-> Len(original_chunks),
         N_gen |-> N_gen])))

\* utils_misc.batcher: the list cut into consecutive batches of batch_size
batcher(dataset, batch_size) ==
    Eager([c \in 1..((Len(dataset) + batch_size - 1) \div batch_size) |->
        SubSeq(dataset, (c - 1) * batch_size + 1, Min2(c * batch_size, Len(dataset)))])

\* one predictor call: batch_evids, batch_conts, batch_neuts of the batch
nli_batch(name, batch) ==
    Bind(model_map[name], LAMBDA m :
    Bind(Eager([x \in 1..Len(batch) |->
             softmax(name, batch[x].premise, batch[x].hypothesis)]), LAMBDA probs :
        [evids |-> Eager([x \in 1..Len(batch) |-> probs[x][m.entailment_idx + 1]]),
         conts |-> Eager([x \in 1..Len(batch) |-> probs[x][m.contradiction_idx + 1]]),
         neuts |-> Eager([x \in 1..Len(batch) |->
                      probs[x][get_neutral_idx(m.entailment_idx, m.contradiction_idx) + 1]])]))

\* the loop over the batches and, in it, over zip(batch, batch_evids,
\* batch_conts, batch_neuts): the items in the order they are taken, each
\* with the three values the predictor call of its batch gave for it
answers(name, batches) ==
    Flatten(Eager([c \in 1..Len(batches) |->
        Bind(nli_batch(name, batches[c]), LAMBDA out :
            Eager([x \in 1..Len(batches[c]) |->
                [b |-> batches[c][x],
                 probs |-> <<out.evids[x], out.conts[x], out.neuts[x]>>]]))]))

\* a cell of plane p after the writes to it, in their order: the last one
\* stays, and a cell never written keeps its value
cell_after(old, writes, p) == IF writes = <<>> THEN old ELSE writes[Len(writes)].probs[p]

\* the loop of build_image over the batches: image[0, doc_i, gen_i] = evid,
\* image[1, ...] = cont, image[2, ...] = neut for every item
run_image(image, batches, name) ==
    Bind(answers(name, batches), LAMBDA done :
        Eager([p \in 1..3 |->
            Eager([i \in 1..N_ori_of(image) |->
                Eager([j \in 1..N_gen_of(image) |->
                    cell_after(image[p][i][j],
                               SelectSeq(done, LAMBDA w : /\ w.b.doc_i = i - 1
                                                          /\ w.b.gen_i = j - 1),
                               p)])])]))

\* the predictor calls of a loop over batches: per call, the (premise,
\* hypothesis) pairs given, each with the text pair it was chunked from
calls_of(batches, todo) ==
    Eager([c \in 1..Len(batches) |->
        Eager([x \in 1..Len(batches[c]) |->
            [premise |-> batches[c][x].premise,
             hypothesis |-> batches[c][x].hypothesis,
             of |-> todo[batches[c][x].pair_idx + 1]]])])

\* a plausible slip: the empty case is not told apart
no_pairs_never(dataset) == FALSE

\* len(dataset) == 0
no_pairs(dataset) == Len(dataset) = 0

\* np.zeros((3, 1, 1))
empty_image == zeros(3, 1, 1)

\* build_image: what it returns, the cache it leaves and its predictor calls
build_image(name, gr, uc, c, original, generated) ==
    Bind(<<original, generated>>, LAMBDA cache_key :
        IF uc /\ cache_key \in DOMAIN c
        THEN [ret |-> slice_rows(c[cache_key], MaxDocSents), cache |-> c, calls |-> <<>>]
        ELSE Bind(build_chunk_dataset(gr, original, generated, 0), LAMBDA built :
            IF no_pairs(built.dataset)
            THEN [ret |-> empty_image, cache |-> c, calls |-> <<>>]
            ELSE Bind(batcher(built.dataset, 20), LAMBDA batches :
                 Bind(run_image(zeros(3, built.N_ori, built.N_gen), batches, name),
                      LAMBDA image :
                     [ret |-> image,
                      cache |-> IF uc THEN (cache_key :> image) @@ c ELSE c,
                      calls |-> calls_of(batches, <<cache_key>>)]))))

\* zip(originals, generateds)
zip(originals, generateds) ==
    Eager([k \in 1..Min2(Len(originals), Len(generateds)) |->
              <<originals[k], generateds[k]>>])

\* a plausible slip: the carried pair id is ignored
first_image(b) == 1

\* image = todo_images[b["pair_idx"]]: the place of the image in todo_images
image_of_item(b) == b.pair_idx + 1

\* the loop of build_images over the batches: the three writes of every
\* item go to the image of its pair
run_images(todo_images, batches, name) ==
    Bind(answers(name, batches), LAMBDA done :
        Eager([k \in 1..Len(todo_images) |->
            Eager([p \in 1..3 |->
                Eager([i \in 1..N_ori_of(todo_images[k]) |->
                    Eager([j \in 1..N_gen_of(todo_images[k]) |->
                        cell_after(todo_images[k][p][i][j],
                                   SelectSeq(done, LAMBDA w : /\ image_of_item(w.b) = k
                                                              /\ w.b.doc_i = i - 1
                                                              /\ w.b.gen_i = j - 1),
                                   p)])])])]))

\* the last loop of build_images: self.cache[cache_key] = todo_images[pair_idx]
RECURSIVE store_images(_, _, _, _)
store_images(c, todo, todo_images, p) ==
    IF p > Len(todo) THEN c
    ELSE store_images((todo[p] :> todo_images[p]) @@ c, todo, todo_images, p + 1)

\* a plausible slip: only the newly computed images are returned
images_of_todo(c, pairs, todo, todo_images) == todo_images

\* images = [self.cache[(ori, gen)] for ori, gen in zip(originals, generateds)]
images_of(c, pairs, todo, todo_images) == Eager([k \in 1..Len(pairs) |-> c[pairs[k]]])

\* build_images: what it returns, the cache it leaves and its predictor calls
build_images(name, gr, c, originals, generateds, batch_size) ==
    Bind(zip(originals, generateds), LAMBDA pairs :
    Bind(SelectSeq(pairs, LAMBDA cache_key : cache_key \notin DOMAIN c), LAMBDA todo :
    Bind(Eager([p \in 1..Len(todo) |->
             build_chunk_dataset(gr, todo[p][1], todo[p][2], p - 1)]), LAMBDA built :
    Bind(batcher(Flatten([p \in 1..Len(todo) |-> built[p].dataset]), batch_size),
         LAMBDA batches :
    Bind(run_images(Eager([p \in 1..Len(todo) |->
                        IF no_pairs(built[p].dataset) THEN empty_image
                        ELSE zeros(3, built[p].N_ori, built[p].N_gen)]),
                    batches, name), LAMBDA todo_images :
    Bind(store_images(c, todo, todo_images, 1), LAMBDA stored :
        [ret |-> images_of(stored, pairs, todo, todo_images),
         cache |-> stored,
         calls |-> calls_of(batches, todo)]))))))

\* ------------------------------------------------------------- the cache file
\* the file is absent, empty (zero bytes) or holds one JSON object; saved is
\* the cache that save_cache wrote it from (a history field, not on disk)
NoFile == [kind |-> "absent", obj |-> <<>>, saved |-> <<>>]

EmptyFile == [kind |-> "empty", obj |-> <<>>, saved |-> <<>>]

\* get_cache_file: a missing folder is made, and then a missing file is
\* made empty; an existing folder is left as it is
get_cache_file(fo, fi) ==
    IF ~fo THEN [folder |-> TRUE, file |-> IF fi.kind = "absent" THEN EmptyFile ELSE fi]
    ELSE [folder |-> fo, file |-> fi]

\* the keys of cache_cp
encoded_keys(c) == {Join(k, SEP) : k \in DOMAIN c}

\* cache_cp = {"[///]".join(k): v.tolist() for k, v in self.cache.items()}:
\* of the keys that join to one string the last one iterated gives the
\* value; the cache keeps no order here, so any of them may
cache_cps(c) ==
    IF DOMAIN c = {} THEN {<<>>}
    ELSE {cp \in [encoded_keys(c) -> {c[k] : k \in DOMAIN c}] :
            \A e \in encoded_keys(c) :
                \E k \in DOMAIN c : Join(k, SEP) = e /\ cp[e] = c[k]}

\* tuple(k.split("[///]"))
decode_key(e) == Split(e, SEP)

\* {tuple(k.split("[///]")): np.array(v) for k, v in cache_cp.items()}
loaded_cache(cache_cp) ==
    IF DOMAIN cache_cp = {} THEN <<>>
    ELSE [k \in {decode_key(e) : e \in DOMAIN cache_cp} |->
             cache_cp[CHOOSE e \in DOMAIN cache_cp : decode_key(e) = k]] @@ <<>>

\* ------------------------------------------------------------- numbers
\* a score is the fraction <<n, d>> of a probability unit, d > 0
Q(n) == <<n, 1>>

QLe(a, b) == a[1] * b[2] <= b[1] * a[2]

QEq(a, b) == a[1] * b[2] = b[1] * a[2]

QAdd(a, b) == <<a[1] * b[2] + b[1] * a[2], a[2] * b[2]>>

QSub(a, b) == <<a[1] * b[2] - b[1] * a[2], a[2] * b[2]>>

QDiv(a, k) == <<a[1], a[2] * k>>

RECURSIVE QSum(_)
QSum(v) ==
    IF v = <<>> THEN Q(0)
    ELSE IF Len(v) = 1 THEN v[1]
    ELSE QAdd(QSum(SubSeq(v, 1, Len(v) \div 2)), QSum(SubSeq(v, (Len(v) \div 2) + 1, Len(v))))

\* np.max, np.min and np.mean of a vector that is not empty
np_max(v) == v[CHOOSE x \in 1..Len(v) : \A y \in 1..Len(v) : QLe(v[y], v[x])]

np_min(v) == v[CHOOSE x \in 1..Len(v) : \A y \in 1..Len(v) : QLe(v[x], v[y])]

np_mean(v) == QDiv(QSum(v), Len(v))

\* plane[:, j] of a plane of the image
column(plane, j) == Eager([i \in 1..Len(plane) |-> Q(plane[i][j])])

\* np.<op>(plane, axis=0): the reduction of every column
reduce_axis0(op, plane) ==
    Eager([j \in 1..Len(plane[1]) |->
        CASE op = "max" -> np_max(column(plane, j))
          [] op = "mean" -> np_mean(column(plane, j))
          [] op = "min" -> np_min(column(plane, j))])

\* ------------------------------------------------------------- SummaCZS
\* a plausible slip: the neutral plane is read for the contradiction plane
co_plane_neutral(image) == image[3]

\* image[1]
co_plane(image) == image[2]

\* image2score, for use_ent or use_con
image2score(image, op1, op2, use_ent, use_con) ==
    Bind(IF op1 = "mean" THEN reduce_axis0("mean", image[1])
         ELSE IF op1 = "min" THEN reduce_axis0("min", image[1])
         ELSE reduce_axis0("max", image[1]), LAMBDA ent_scores :
    Bind(IF op1 = "mean" THEN reduce_axis0("mean", co_plane(image))
         ELSE IF op1 = "min" THEN reduce_axis0("min", co_plane(image))
         ELSE reduce_axis0("max", co_plane(image)), LAMBDA co_scores :
    Bind(IF use_ent /\ use_con
         THEN Eager([j \in 1..Len(ent_scores) |-> QSub(ent_scores[j], co_scores[j])])
         ELSE IF use_ent THEN ent_scores
         ELSE Eager([j \in 1..Len(co_scores) |-> QSub(Q(Scale), co_scores[j])]),
         LAMBDA scores :
             IF op2 = "min" THEN np_min(scores)
             ELSE IF op2 = "max" THEN np_max(scores)
             ELSE np_mean(scores))))

Ops == {"max", "mean", "min"}

\* ------------------------------------------------------------- SummaCConv
\* self.n_rows
n_rows == 10

\* the n of bins = "even<n>" (50 by default)
EvenBins == 4

\* self.bins: the n edges 0, 1/n, ... and a closing 1.0, or the percentile
\* edges, as fractions of a probability unit
bins_of(bins) ==
    IF bins = "percentile"
    THEN <<Q(0), Q(10), Q(20), Q(30), Q(40), Q(70), Q(130), Q(370), Q(900), Q(910),
           Q(920), Q(930), Q(940), Q(950), Q(955), Q(960), Q(965), Q(970), Q(975),
           Q(980), Q(985), Q(990), Q(995), Q(Scale)>>
    ELSE Eager([k \in 1..EvenBins |-> <<(k - 1) * Scale, EvenBins>>]) \o <<Q(Scale)>>

\* self.n_bins
n_bins_of(c) == Len(bins_of(c.bins)) - 1

\* self.full_size = n_depth * n_bins
full_size_of(c) == Len(c.models) * Cardinality(c.nli_labels) * n_bins_of(c)

\* a plausible slip: every bin is open at its right edge, the last one too
in_bin_half_open(x, edges, b) == QLe(edges[b], Q(x)) /\ ~QLe(edges[b + 1], Q(x))

\* whether np.histogram counts x in bin b: edges[b] <= x < edges[b + 1], and
\* x <= edges[b + 1] in the last bin
in_bin(x, edges, b) ==
    /\ QLe(edges[b], Q(x))
    /\ IF b = Len(edges) - 1 THEN QLe(Q(x), edges[b + 1]) ELSE ~QLe(edges[b + 1], Q(x))

\* np.histogram(values, range=(0, 1), bins=edges, density=False)[0]: with
\* the edges given the range is not used
np_histogram(values, edges) ==
    Eager([b \in 1..(Len(edges) - 1) |->
        Cardinality({i \in 1..Len(values) : in_bin(values[i], edges, b)})])

\* the condition on i_depth (from 0) of the loop of compute_histogram
selected(i_depth, nli_labels) ==
    \/ (i_depth % 3 = 0 /\ "e" \in nli_labels)
    \/ (i_depth % 3 = 1 /\ "c" \in nli_labels)
    \/ (i_depth % 3 = 2 /\ "n" \in nli_labels)

\* histogram_row of the generated unit i_gen (from 1)
histogram_row(c, image, i_gen) ==
    Flatten(Eager([d \in 1..Len(image) |->
        IF selected(d - 1, c.nli_labels)
        THEN np_histogram(Eager([i \in 1..Len(image[d]) |-> image[d][i][i_gen]]),
                          bins_of(c.bins))
        ELSE <<>>]))

\* a plausible slip: the rows are padded and not cut
pad_only(full_histogram, size) ==
    full_histogram
        \o Eager([r \in 1..(n_rows - Len(full_histogram)) |-> Eager([x \in 1..size |-> 0])])

\* full_histogram += [[0.0] * full_size] * n_rows_missing, then [:n_rows]
pad_and_cut(full_histogram, size) ==
    Prefix(full_histogram
               \o Eager([r \in 1..(n_rows - Len(full_histogram)) |->
                            Eager([x \in 1..size |-> 0])]),
           n_rows)

\* compute_histogram(image=image): the histogram matrix
compute_histogram(c, image) ==
    pad_and_cut(Eager([i_gen \in 1..N_gen_of(image) |-> histogram_row(c, image, i_gen)]),
                full_size_of(c))

\* SummaCConv.build_image from its x-th Imager on: the image of every
\* Imager, the caches they leave and the Imagers called
RECURSIVE conv_build_images(_, _, _, _, _)
conv_build_images(c, caches, original, generated, x) ==
    IF x > Len(c.models) THEN [images |-> <<>>, caches |-> caches, calls |-> <<>>]
    ELSE Bind(build_image(c.models[x], c.grans, TRUE, caches[x], original, generated),
              LAMBDA r :
         Bind(conv_build_images(c, [caches EXCEPT ![x] = r.cache],
                                original, generated, x + 1), LAMBDA rest :
             [images |-> <<r.ret>> \o rest.images,
              caches |-> rest.caches,
              calls |-> <<c.models[x]>> \o rest.calls]))

\* SummaCConv.build_image: np.concatenate(images, axis=0)
conv_build_image(c, caches, original, generated) ==
    Bind(conv_build_images(c, caches, original, generated, 1), LAMBDA r :
        [image |-> Flatten(r.images), caches |-> r.caches, calls |-> r.calls])

\* the loop of forward over the text pairs, from the k-th on
RECURSIVE forward_texts(_, _, _, _, _)
forward_texts(c, caches, originals, generateds, k) ==
    IF k > Min2(Len(originals), Len(generateds))
    THEN [images |-> <<>>, histograms |-> <<>>, caches |-> caches, calls |-> <<>>]
    ELSE Bind(conv_build_image(c, caches, originals[k], generateds[k]), LAMBDA b :
         Bind(forward_texts(c, b.caches, originals, generateds, k + 1), LAMBDA rest :
             [images |-> <<b.image>> \o rest.images,
              histograms |-> <<compute_histogram(c, b.image)>> \o rest.histograms,
              caches |-> rest.caches,
              calls |-> b.calls \o rest.calls]))

\* the parameters of self.mlp and self.layer_final (any numbers)
mlp ==
    [weight |-> [x \in 1..200 |-> ((x * 7) % 5) - 2], bias |-> 1]

layer_final ==
    [weight |-> << <<2, -1, 1>>, <<-1, 3, 1>> >>, bias |-> <<1, -2>>]

\* self.mlp(histograms) of one row
mlp_out(row) == SumSeq(Eager([x \in 1..Len(row) |-> mlp.weight[x] * row[x]])) + mlp.bias

\* seq_lengths: the number of rows whose sum is not 0
seq_length_of(histogram) ==
    Cardinality({r \in 1..Len(histogram) : SumSeq(histogram[r]) # 0})

\* the feature of one document pair
feature_of(agg, histogram) ==
    Bind(seq_length_of(histogram), LAMBDA seq_length :
        IF seq_length > 0
        THEN Bind(Eager([r \in 1..seq_length |-> Q(mlp_out(histogram[r]))]), LAMBDA Rs :
                 CASE agg = "mean" -> Bind(np_mean(Rs), LAMBDA a : <<a, a, a>>)
                   [] agg = "min" -> Bind(np_min(Rs), LAMBDA a : <<a, a, a>>)
                   [] agg = "max" -> Bind(np_max(Rs), LAMBDA a : <<a, a, a>>)
                   [] agg = "all" -> <<np_min(Rs), np_mean(Rs), np_max(Rs)>>)
        ELSE <<Q(0), Q(0), Q(0)>>)

\* self.layer_final(features) of one document pair
logits_of(feature) ==
    Eager([y \in 1..2 |->
        QAdd(QSum(Eager([f \in 1..3 |->
                      <<layer_final.weight[y][f] * feature[f][1], feature[f][2]>>])),
             Q(layer_final.bias[y]))])

\* ------------------------------------------------------------- inputs
\* an original of three sentences (and three paragraphs), and one with the
\* separator in it that is too short to be a sentence or a paragraph
LongDoc == <<"W", ".", "n", "V", ".", "n", "W", "w", ".">>

SepDoc == <<"w", "S">>

\* a summary of three sentences, and one too short to be a unit
LongSum == <<"W", ".", "_", "V", ".", "_", "W", "w", ".">>

ShortSum == <<"w", ".">>

\* the (original, generated) pairs given to the Imager
Pairs == { <<LongDoc, LongSum>>, <<SepDoc, LongSum>>, <<LongDoc, ShortSum>> }

\* (model_name, granularity.split("-")) of the Imager
Configs ==
    { <<"mnli", <<"sentence">>>>,
      <<"vitc", <<"document", "sentence">>>>,
      <<"anli", <<"mixed", "2sents">>>> }

\* the lists of n elements of a set
Lists(S, n) == [1..n -> S]

Idle == [op |-> "none"]

Called(op, originals, generateds, batch_size, ret, calls, raised) ==
    [op |-> op, originals |-> originals, generateds |-> generateds,
     batch_size |-> batch_size, ret |-> ret, calls |-> calls, raised |-> raised]

\* no call is under way: the caller has taken the result of the last one
NoCall == Called("none", <<>>, <<>>, 0, <<>>, <<>>, FALSE)

\* ------------------------------------------------------------- the Imager
\* SummaCImager.__init__: an empty cache; the cache folder may be there
\* already, the cache file of this model and granularity is not
Init ==
    /\ \E cfg \in Configs : model_name = cfg[1] /\ grans = cfg[2]
    /\ use_cache \in BOOLEAN
    /\ cache = <<>>
    /\ folder \in BOOLEAN
    /\ file = NoFile
    /\ last = NoCall
    /\ zs = Idle
    /\ conv = Idle

BuildImage ==
    /\ last = NoCall
    /\ \E pair \in Pairs :
        \E r \in {build_image(model_name, grans, use_cache, cache, pair[1], pair[2])} :
        /\ cache' = r.cache
        /\ last' = Called("build_image", <<pair[1]>>, <<pair[2]>>, 0,
                          <<r.ret>>, r.calls, FALSE)
        /\ UNCHANGED <<model_name, grans, use_cache, folder, file, zs, conv>>

BuildImages ==
    /\ last = NoCall
    /\ \E n \in 0..MaxPairs, batch_size \in 1..MaxBatch :
        \E pairs \in Lists(Pairs, n) :
          \E originals \in {Eager([k \in 1..n |-> pairs[k][1]])},
             generateds \in {Eager([k \in 1..n |-> pairs[k][2]])} :
            \E r \in {build_images(model_name, grans, cache, originals, generateds,
                                   batch_size)} :
            /\ cache' = r.cache
            /\ last' = Called("build_images", originals, generateds, batch_size,
                              r.ret, r.calls, FALSE)
            /\ UNCHANGED <<model_name, grans, use_cache, folder, file, zs, conv>>

\* save_cache: cache_cp is made, then the file is opened for writing and
\* json.dump writes it
SaveCache ==
    /\ last = NoCall
    /\ \E cache_cp \in cache_cps(cache) :
        /\ folder' = get_cache_file(folder, file).folder
        /\ file' = [kind |-> "json", obj |-> cache_cp, saved |-> cache]
        /\ last' = Called("save_cache", <<>>, <<>>, 0, <<>>, <<>>, FALSE)
        /\ UNCHANGED <<model_name, grans, use_cache, cache, zs, conv>>

\* load_cache: json.load of an empty file raises JSONDecodeError
LoadCache ==
    /\ last = NoCall
    /\ \E got \in {get_cache_file(folder, file)} :
        /\ folder' = got.folder
        /\ file' = got.file
        /\ cache' = IF got.file.kind = "json" THEN loaded_cache(got.file.obj) ELSE cache
        /\ last' = Called("load_cache", <<>>, <<>>, 0, <<>>, <<>>, got.file.kind = "empty")
    /\ UNCHANGED <<model_name, grans, use_cache, zs, conv>>

\* a fresh Imager of the same model and granularity, hence of the same file
NewImager ==
    /\ last = NoCall
    /\ cache' = <<>>
    /\ use_cache' \in BOOLEAN
    /\ last' = Called("init", <<>>, <<>>, 0, <<>>, <<>>, FALSE)
    /\ UNCHANGED <<model_name, grans, folder, file, zs, conv>>

\* the call returns: the caller takes what it returned or raised
Return ==
    /\ last # NoCall
    /\ last' = NoCall
    /\ UNCHANGED <<model_name, grans, use_cache, cache, folder, file, zs, conv>>

Next == BuildImage \/ BuildImages \/ SaveCache \/ LoadCache \/ NewImager \/ Return

Spec == Init /\ [][Next]_vars

\* ------------------------------------------------------------- SummaCZS
\* the most original units and generated units of an image given to
\* image2score
MaxRows == 2

MaxCols == 2

\* the class distributions (entailment, contradiction, neutral) of its cells
CellDists == { <<700, 200, 100>>, <<125, 375, 500>> }

\* the 3 x n x m images
ImagesOfShape(n, m) ==
    { Eager([p \in 1..3 |-> Eager([i \in 1..n |-> Eager([j \in 1..m |-> cells[i][j][p]])])]) :
        cells \in [1..n -> [1..m -> CellDists]] }

ZSImages == UNION { ImagesOfShape(n, m) : n \in 1..MaxRows, m \in 1..MaxCols }

ZSCalled(call, images, scores) ==
    [op1 |-> zs.op1, op2 |-> zs.op2, use_ent |-> zs.use_ent, use_con |-> zs.use_con,
     call |-> call, images |-> images, scores |-> scores]

\* SummaCZS.__init__ with granularity "document" and model "vitc": op1 and
\* op2 are checked, use_ent or use_con is set; the Imager starts with an
\* empty cache
InitZS ==
    /\ model_name = "vitc"
    /\ grans = <<"document">>
    /\ use_cache = TRUE
    /\ cache = <<>>
    /\ folder = TRUE
    /\ file = NoFile
    /\ last = NoCall
    /\ \E op1 \in Ops, op2 \in Ops, use_ent \in BOOLEAN, use_con \in BOOLEAN :
           /\ use_ent \/ use_con
           /\ zs = [op1 |-> op1, op2 |-> op2, use_ent |-> use_ent, use_con |-> use_con,
                    call |-> "none", images |-> <<>>, scores |-> <<>>]
    /\ conv = Idle

\* image2score(image)
Image2Score ==
    /\ zs.call = "none"
    /\ \E image \in ZSImages :
           zs' = ZSCalled("image2score", <<image>>,
                          <<image2score(image, zs.op1, zs.op2, zs.use_ent, zs.use_con)>>)
    /\ UNCHANGED <<model_name, grans, use_cache, cache, folder, file, last, conv>>

\* score_one(original, generated)
ScoreOne ==
    /\ zs.call = "none"
    /\ \E pair \in Pairs :
        \E r \in {build_image(model_name, grans, use_cache, cache, pair[1], pair[2])} :
           /\ cache' = r.cache
           /\ zs' = ZSCalled("score_one", <<r.ret>>,
                             <<image2score(r.ret, zs.op1, zs.op2, zs.use_ent, zs.use_con)>>)
    /\ UNCHANGED <<model_name, grans, use_cache, folder, file, last, conv>>

\* score(sources, generateds, batch_size)
Score ==
    /\ zs.call = "none"
    /\ \E n \in 0..MaxPairs, batch_size \in 1..MaxBatch :
        \E pairs \in Lists(Pairs, n) :
          \E r \in {build_images(model_name, grans, cache,
                                 Eager([k \in 1..n |-> pairs[k][1]]),
                                 Eager([k \in 1..n |-> pairs[k][2]]), batch_size)} :
            /\ cache' = r.cache
            /\ zs' = ZSCalled("score", r.ret,
                              Eager([k \in 1..n |->
                                  image2score(r.ret[k], zs.op1, zs.op2,
                                              zs.use_ent, zs.use_con)]))
    /\ UNCHANGED <<model_name, grans, use_cache, folder, file, last, conv>>

\* the call returns
ReturnZS ==
    /\ zs.call # "none"
    /\ zs' = ZSCalled("none", <<>>, <<>>)
    /\ UNCHANGED <<model_name, grans, use_cache, cache, folder, file, last, conv>>

NextZS == Image2Score \/ ScoreOne \/ Score \/ ReturnZS

SpecZS == InitZS /\ [][NextZS]_vars

\* ------------------------------------------------------------- the SummaCConv
\* the sentences of the longest summary: one more than n_rows
MaxSents == n_rows + 1

\* a summary of MaxSents sentences
ManySum ==
    Join(Eager([k \in 1..MaxSents |->
             <<"W">> \o Eager([x \in 1..(k % 3) |-> "w"]) \o <<".">>]), <<"_">>)

\* the (original, generated) pairs given to the SummaCConv
ConvPairs == { <<LongDoc, LongSum>>, <<LongDoc, ManySum>>, <<LongDoc, ShortSum>> }

\* (models, bins, nli_labels, agg) of the SummaCConv; the granularity is
\* "sentence"
ConvConfigs ==
    { [models |-> <<"vitc">>, bins |-> "even", nli_labels |-> {"e"}, agg |-> "mean"],
      [models |-> <<"mnli", "anli">>, bins |-> "percentile", nli_labels |-> {"e", "c"},
       agg |-> "all"],
      [models |-> <<"vitc", "mnli">>, bins |-> "even", nli_labels |-> {"e", "c", "n"},
       agg |-> "min"],
      [models |-> <<"anli">>, bins |-> "percentile", nli_labels |-> {"c", "n"},
       agg |-> "max"] }

\* the class distributions of the cells of an image made by the caller
ConvCellDists == { <<Scale, 0, 0>>, <<0, Scale \div 2, Scale \div 2>> }

\* the images of n x m cells a caller makes for the models: the same planes
\* for every model
MadeImages(models, n, m) ==
    { Flatten(Eager([x \in 1..Len(models) |->
          Eager([p \in 1..3 |-> Eager([i \in 1..n |-> Eager([j \in 1..m |->
              cells[i][j][p]])])])])) :
        cells \in [1..n -> [1..m -> ConvCellDists]] }

\* the images forward returned for the pairs, which a caller keeps to give
\* them again
BuiltImages(c) ==
    { conv_build_image(c, Eager([x \in 1..Len(c.models) |-> <<>>]), pair[1], pair[2]).image :
        pair \in ConvPairs }

\* the images given to compute_histogram: those built of the pairs, and
\* those a caller makes
ConvImages(c) ==
    BuiltImages(c)
        \cup UNION { MadeImages(c.models, n, m) : n \in 1..MaxRows, m \in 1..MaxCols }

\* the state of the SummaCConv after a call
ConvCalled(caches, call, given, images_in, originals, generateds, raised, images, histograms, calls) ==
    [models |-> conv.models, grans |-> conv.grans, bins |-> conv.bins,
     nli_labels |-> conv.nli_labels, agg |-> conv.agg,
     caches |-> caches, call |-> call, given |-> given, images_in |-> images_in,
     originals |-> originals, generateds |-> generateds,
     raised |-> raised, images |-> images, histograms |-> histograms,
     seq_lengths |-> Eager([k \in 1..Len(histograms) |-> seq_length_of(histograms[k])]),
     features |-> Eager([k \in 1..Len(histograms) |->
                            feature_of(conv.agg, histograms[k])]),
     logits |-> Eager([k \in 1..Len(histograms) |->
                          logits_of(feature_of(conv.agg, histograms[k]))]),
     calls |-> calls]

\* SummaCConv.__init__: one Imager per model, each with an empty cache
InitConv ==
    /\ model_name = "vitc"
    /\ grans = <<"sentence">>
    /\ use_cache = TRUE
    /\ cache = <<>>
    /\ folder = TRUE
    /\ file = NoFile
    /\ last = NoCall
    /\ zs = Idle
    /\ \E c \in ConvConfigs :
           conv = [models |-> c.models, grans |-> <<"sentence">>, bins |-> c.bins,
                   nli_labels |-> c.nli_labels, agg |-> c.agg,
                   caches |-> Eager([x \in 1..Len(c.models) |-> <<>>]),
                   call |-> "none", given |-> FALSE, images_in |-> <<>>,
                   originals |-> <<>>, generateds |-> <<>>,
                   raised |-> FALSE, images |-> <<>>, histograms |-> <<>>,
                   seq_lengths |-> <<>>, features |-> <<>>, logits |-> <<>>,
                   calls |-> <<>>]

\* compute_histogram(image=image)
ComputeHistogramOfImage ==
    /\ conv.call = "none"
    /\ \E image \in ConvImages(conv) :
         \E h \in {compute_histogram(conv, image)} :
           conv' = ConvCalled(conv.caches, "compute_histogram", TRUE, <<image>>, <<>>, <<>>,
                              FALSE, <<image>>, <<h>>, <<>>)
    /\ UNCHANGED <<model_name, grans, use_cache, cache, folder, file, last, zs>>

\* compute_histogram(original=original, generated=generated)
ComputeHistogramOfTexts ==
    /\ conv.call = "none"
    /\ \E pair \in ConvPairs :
         \E b \in {conv_build_image(conv, conv.caches, pair[1], pair[2])} :
           conv' = ConvCalled(b.caches, "compute_histogram", FALSE, <<>>,
                              <<pair[1]>>, <<pair[2]>>, FALSE, <<b.image>>,
                              <<compute_histogram(conv, b.image)>>, b.calls)
    /\ UNCHANGED <<model_name, grans, use_cache, cache, folder, file, last, zs>>

\* forward(originals, generateds, images=images) with images given and not
\* empty: the first turn of the loop reads self.images, which no SummaCConv
\* has, and the call raises
ForwardOfImages ==
    /\ conv.call = "none"
    /\ \E n \in 1..MaxPairs :
         \E images \in Lists(BuiltImages(conv), n) :
           conv' = ConvCalled(conv.caches, "forward", TRUE, images, <<>>, <<>>,
                              TRUE, <<>>, <<>>, <<>>)
    /\ UNCHANGED <<model_name, grans, use_cache, cache, folder, file, last, zs>>

\* forward(originals, generateds): nothing of ./datasets/compute_hist is
\* there, the images are built
ForwardOfTexts ==
    /\ conv.call = "none"
    /\ \E n \in 1..MaxPairs :
         \E pairs \in Lists(ConvPairs, n) :
           \E r \in {forward_texts(conv, conv.caches,
                                   Eager([k \in 1..n |-> pairs[k][1]]),
                                   Eager([k \in 1..n |-> pairs[k][2]]), 1)} :
             conv' = ConvCalled(r.caches, "forward", FALSE, <<>>,
                                Eager([k \in 1..n |-> pairs[k][1]]),
                                Eager([k \in 1..n |-> pairs[k][2]]),
                                FALSE, r.images, r.histograms, r.calls)
    /\ UNCHANGED <<model_name, grans, use_cache, cache, folder, file, last, zs>>

\* the call returns or its error is caught
ReturnConv ==
    /\ conv.call # "none"
    /\ conv' = ConvCalled(conv.caches, "none", FALSE, <<>>, <<>>, <<>>, FALSE, <<>>, <<>>, <<>>)
    /\ UNCHANGED <<model_name, grans, use_cache, cache, folder, file, last, zs>>

NextConv ==
    \/ ComputeHistogramOfImage
    \/ ComputeHistogramOfTexts
    \/ ForwardOfImages
    \/ ForwardOfTexts
    \/ ReturnConv

SpecConv == InitConv /\ [][NextConv]_vars

\* ------------------------------------------------------------- properties
\* the chunks of a text pair under the granularity, as build_chunk_dataset
\* cuts them
original_chunks_of(gr, original) == Prefix(split_text(original, gr[1]), MaxDocSents)

generated_chunks_of(gr, generated) == split_text(generated, gr[Len(gr)])

\* the class index of each plane of an image
PlaneIdx(name) ==
    <<model_map[name].entailment_idx, model_map[name].contradiction_idx,
      3 - model_map[name].entailment_idx - model_map[name].contradiction_idx>>

\* the image of a text pair: the predictor's answer for every pair of
\* chunks, or the 1 x 1 x 1 zero image when there is no pair of chunks
ImageOfPair(name, gr, original, generated) ==
    LET oc == original_chunks_of(gr, original)
        gc == generated_chunks_of(gr, generated)
    IN IF oc = <<>> \/ gc = <<>> THEN <<<<<<0>>>>, <<<<0>>>>, <<<<0>>>>>>
       ELSE Eager([p \in 1..3 |-> Eager([i \in 1..Len(oc) |-> Eager([j \in 1..Len(gc) |->
                softmax(name, oc[i], gc[j])[PlaneIdx(name)[p] + 1]])])])

Built == last.op \in {"build_image", "build_images"}

C2_OrderPreserved ==
    last.op = "build_images" =>
        /\ Len(last.ret) = Len(last.originals)
        /\ \A k \in 1..Len(last.ret) :
               last.ret[k] = ImageOfPair(model_name, grans,
                                         last.originals[k], last.generateds[k])

\* build_images was given a cached pair and then a pair not cached, and
\* computed only the second
C2_Witness ==
    /\ last.op = "build_images"
    /\ Len(last.ret) = 2
    /\ last.ret[1] # last.ret[2]
    /\ last.ret[1] # empty_image
    /\ last.calls # <<>>
    /\ \A c \in 1..Len(last.calls) : \A x \in 1..Len(last.calls[c]) :
           last.calls[c][x].of = <<last.originals[2], last.generateds[2]>>
    /\ <<last.originals[1], last.generateds[1]>> # <<last.originals[2], last.generateds[2]>>

\* C2, the same pair given twice
C2_WitnessTwice ==
    /\ last.op = "build_images"
    /\ Len(last.ret) = 2
    /\ last.originals[1] = last.originals[2]
    /\ last.generateds[1] = last.generateds[2]
    /\ last.calls # <<>>

\* C3: save_cache and then load_cache into a fresh Imager (of an empty
\* cache) give the cache that was saved: the same keys, each with its image
C3_RoundTrip ==
    [][(last'.op = "load_cache" /\ cache = <<>> /\ file.kind = "json") =>
          cache' = file.saved]_vars

\* C4: load_cache with neither the cache folder nor the cache file there
\* raises nothing and leaves the cache as it was
C4_LoadWithoutStore ==
    [][(last'.op = "load_cache" /\ ~folder /\ file.kind = "absent") =>
          (~last'.raised /\ cache' = cache)]_vars

\* the three planes of the image sum to one at every cell
SumsToOne(image) ==
    \A i \in 1..Len(image[1]) : \A j \in 1..Len(image[1][i]) :
        image[1][i][j] + image[2][i][j] + image[3][i][j] = Scale

\* C5: every image build_image or build_images returns is the 1 x 1 x 1
\* zero image or sums to one at every cell
C5_Simplex ==
    Built => \A k \in 1..Len(last.ret) :
                 last.ret[k] = <<<<<<0>>>>, <<<<0>>>>, <<<<0>>>>>> \/ SumsToOne(last.ret[k])

\* build_image served from the cache, after a save_cache, an image of
\* several generated units
C5_Witness ==
    /\ last.op = "build_image"
    /\ last.calls = <<>>
    /\ Len(last.ret[1][1][1]) > 1
    /\ file.kind = "json"
    /\ <<last.originals[1], last.generateds[1]>> \in DOMAIN cache
    /\ \E i \in 1..Len(last.ret[1][1]) : \E j \in 1..Len(last.ret[1][1][i]) :
           last.ret[1][3][i][j] # 0

\* whether the k-th pair of the last call has no chunk on one side
NoChunks(k) ==
    \/ original_chunks_of(grans, last.originals[k]) = <<>>
    \/ generated_chunks_of(grans, last.generateds[k]) = <<>>

\* C6: for a pair with no chunk on one side build_image and build_images
\* raise nothing, call the predictor for no chunk pair of it and return the
\* 1 x 1 x 1 zero image, whose score with use_ent and use_con is 0
C6_EmptyChunks ==
    Built => \A k \in 1..Len(last.originals) :
        NoChunks(k) =>
            /\ ~last.raised
            /\ Len(last.ret) = Len(last.originals)
            /\ \A c \in 1..Len(last.calls) : \A x \in 1..Len(last.calls[c]) :
                   last.calls[c][x].of # <<last.originals[k], last.generateds[k]>>
            /\ last.ret[k] = <<<<<<0>>>>, <<<<0>>>>, <<<<0>>>>>>
            /\ \A op1 \in Ops, op2 \in Ops :
                   image2score(last.ret[k], op1, op2, TRUE, TRUE)[1] = 0

\* build_images was given a pair with no original chunk, one with no
\* generated chunk, and build_image a pair with no chunk that was cached
C6_Witness ==
    /\ last.op = "build_images"
    /\ Len(last.originals) = 2
    /\ NoChunks(1)
    /\ ~NoChunks(2)
    /\ original_chunks_of(grans, last.originals[1]) = <<>>
    /\ last.calls # <<>>

C6_WitnessGenerated ==
    /\ last.op = "build_image"
    /\ generated_chunks_of(grans, last.generateds[1]) = <<>>
    /\ original_chunks_of(grans, last.originals[1]) # <<>>
    /\ <<last.originals[1], last.generateds[1]>> \in DOMAIN cache
    /\ use_cache

\* op over a set of integers that is not empty, times n (max, min) or as
\* the sum (mean): n times the reduction of n values
TimesReduced(op, values, n) ==
    CASE op = "max" -> n * (CHOOSE x \in {values[i] : i \in 1..n} :
                               \A i \in 1..n : values[i] <= x)
      [] op = "min" -> n * (CHOOSE x \in {values[i] : i \in 1..n} :
                               \A i \in 1..n : x <= values[i])
      [] op = "mean" -> SumSeq(values)

\* N times c(j): op1 over the original units of the entailment plane (e)
\* and of the contradiction plane (k) at column j, combined
Combined(image, op1, use_ent, use_con, j) ==
    LET N == Len(image[1])
        e == TimesReduced(op1, [i \in 1..N |-> image[1][i][j]], N)
        k == TimesReduced(op1, [i \in 1..N |-> image[2][i][j]], N)
    IN IF use_ent /\ use_con THEN e - k
       ELSE IF use_ent THEN e
       ELSE N * Scale - k

\* N * M times the score of the image
ScoreTimesNM(image, op1, op2, use_ent, use_con) ==
    LET M == Len(image[1][1]) IN
    TimesReduced(op2, [j \in 1..M |-> Combined(image, op1, use_ent, use_con, j)], M)

\* C7: image2score is op2 over the generated units of c(j), c(j) being
\* e(j) - k(j), e(j) or 1 - k(j) by the mode; for a 3 x 1 x 1 image with
\* both flags it is entailment - contradiction
C7_Image2Score ==
    zs.call # "none" =>
        \A x \in 1..Len(zs.images) :
            LET image == zs.images[x]
                N == Len(image[1])
                M == Len(image[1][1])
            IN /\ zs.scores[x][2] > 0
               /\ zs.scores[x][1] * N * M
                      = ScoreTimesNM(image, zs.op1, zs.op2, zs.use_ent, zs.use_con)
                            * zs.scores[x][2]
               /\ (N = 1 /\ M = 1 /\ zs.use_ent /\ zs.use_con) =>
                      QEq(zs.scores[x], Q(image[1][1][1] - image[2][1][1]))

\* image2score of an image of two original and two generated units, with
\* op1 = min, op2 = max and use_con alone
C7_Witness ==
    /\ zs.call = "image2score"
    /\ zs.op1 = "min" /\ zs.op2 = "max"
    /\ ~zs.use_ent
    /\ Len(zs.images[1][1]) = 2 /\ Len(zs.images[1][1][1]) = 2
    /\ zs.images[1][2][1] # zs.images[1][2][2]
    /\ zs.images[1][2][1][1] # zs.images[1][2][1][2]

\* C7, the 3 x 1 x 1 image of one pair of units, scored by score
C7_WitnessSingle ==
    /\ zs.call = "score"
    /\ zs.use_ent /\ zs.use_con
    /\ Len(zs.images) = 2
    /\ Len(zs.images[1][1]) = 1 /\ Len(zs.images[1][1][1]) = 1
    /\ zs.scores[1][1] # 0

\* the width of a histogram row: models x selected labels x bins
RowWidth == Len(conv.models) * Cardinality(conv.nli_labels) * (Len(bins_of(conv.bins)) - 1)

\* the counts of the values of a column of a plane, bin by bin: how many
\* values lie from the edge of the bin up to the next edge, the upper edge
\* belonging to the last bin only
CountsOf(image, d, j) ==
    LET edges == bins_of(conv.bins) IN
    Eager([b \in 1..(Len(edges) - 1) |->
        Cardinality({i \in 1..Len(image[d]) :
            /\ image[d][i][j] * edges[b][2] >= edges[b][1]
            /\ IF b = Len(edges) - 1
               THEN image[d][i][j] * edges[b + 1][2] <= edges[b + 1][1]
               ELSE image[d][i][j] * edges[b + 1][2] < edges[b + 1][1]})])

\* the planes of an image whose label is selected, in order
SelectedPlanes(image) ==
    SelectSeq(Eager([d \in 1..Len(image) |-> d]),
              LAMBDA d : \/ (d % 3 = 1 /\ "e" \in conv.nli_labels)
                         \/ (d % 3 = 2 /\ "c" \in conv.nli_labels)
                         \/ (d % 3 = 0 /\ "n" \in conv.nli_labels))

\* the histogram row of the generated unit j of an image
RowOf(image, j) ==
    LET planes == SelectedPlanes(image) IN
    Flatten(Eager([x \in 1..Len(planes) |-> CountsOf(image, planes[x], j)]))

\* the k-th histogram matrix of the state is the one of the image: n_rows rows
\* of width RowWidth, the first ones the rows of the first generated units,
\* the others zero
MatrixOf(image, histogram) ==
    /\ Len(histogram) = n_rows
    /\ \A r \in 1..n_rows :
           /\ Len(histogram[r]) = RowWidth
           /\ r <= N_gen_of(image) => histogram[r] = RowOf(image, r)
           /\ r > N_gen_of(image) => \A x \in 1..RowWidth : histogram[r][x] = 0

C8_WitnessShort ==
    /\ conv.call = "compute_histogram"
    /\ N_gen_of(conv.images[1]) = 2
    /\ Len(conv.models) = 2
    /\ \A x \in 1..RowWidth : conv.histograms[1][3][x] = 0
    /\ \E x \in 1..RowWidth : conv.histograms[1][2][x] # 0

\* the x-th segment of a histogram row: the bins of one model and label
Segment(row, x) ==
    LET nb == Len(bins_of(conv.bins)) - 1 IN SubSeq(row, (x - 1) * nb + 1, x * nb)

\* C9: in every kept row of a generated unit the counts of every segment
\* (one model, one selected label) sum to the number of original units
C9_SegmentSums ==
    (conv.call \in {"compute_histogram", "forward"} /\ ~conv.raised) =>
        \A k \in 1..Len(conv.histograms) :
            \A r \in 1..Min2(N_gen_of(conv.images[k]), Len(conv.histograms[k])) :
                \A x \in 1..(Len(conv.models) * Cardinality(conv.nli_labels)) :
                    SumSeq(Segment(conv.histograms[k][r], x)) = N_ori_of(conv.images[k])

\* a column of a selected plane held the value 0 and the value 1, and
\* both were counted
C9_Witness ==
    /\ conv.call = "compute_histogram"
    /\ N_ori_of(conv.images[1]) = 2
    /\ "e" \in conv.nli_labels
    /\ {conv.images[1][1][1][1], conv.images[1][1][2][1]} = {0, Scale}
    /\ SumSeq(Segment(conv.histograms[1][1], 1)) = 2

\* C10: forward with images given, not empty, raises nothing, calls no
\* Imager, leaves the caches as they were and returns one histogram matrix
\* per image, of that image, in the order given
C10_ForwardOfImages ==
    [][(conv'.call = "forward" /\ conv'.given) =>
          /\ ~conv'.raised
          /\ conv'.calls = <<>>
          /\ conv'.caches = conv.caches
          /\ Len(conv'.histograms) = Len(conv'.images_in)
          /\ Len(conv'.logits) = Len(conv'.images_in)
          /\ \A k \in 1..Len(conv'.histograms) :
                 MatrixOf(conv'.images_in[k], conv'.histograms[k])]_vars

\* the generated units of the k-th pair of the last forward
UnitsOf(k) == Len(generated_chunks_of(conv.grans, conv.generateds[k]))

\* C11: in forward the effective length of a pair is the number of its
\* generated units, n_rows at most, and a pair of no generated unit has the
\* effective length zero and the feature [0, 0, 0]
C11_EffectiveLength ==
    (conv.call = "forward" /\ ~conv.given /\ ~conv.raised) =>
        \A k \in 1..Len(conv.histograms) :
            /\ conv.seq_lengths[k] = Min2(UnitsOf(k), n_rows)
            /\ UnitsOf(k) = 0 => conv.features[k] = <<Q(0), Q(0), Q(0)>>

\* C12: on an Imager of use_cache false whose cache is empty, build_image
\* and build_images leave the cache empty and compute every image they
\* return from the predictor
C12_CacheDisabled ==
    [][(~use_cache /\ cache = <<>> /\ last'.op \in {"build_image", "build_images"}) =>
          /\ cache' = <<>>
          /\ \A k \in 1..Len(last'.ret) :
                 \/ last'.ret[k] = empty_image
                 \/ \E c \in 1..Len(last'.calls) : \E x \in 1..Len(last'.calls[c]) :
                        last'.calls[c][x].of = <<last'.originals[k], last'.generateds[k]>>]_vars

====
